---------------------------- MODULE Spec2Model ----------------------------
(***************************************************************************)
(* A model of dictionary-api: the word_data aggregation layer              *)
(* (src/dictionary_api/word_data.py), the HTTP endpoint                    *)
(* (src/dictionary_api/app.py) and the command-line menu (src/main.py).    *)
(*                                                                         *)
(* Python strings are sequences of one-character strings, so that lower(), *)
(* replace(), capitalize(), strip(), split(), int() and the ordering used  *)
(* by sorted() are computed character by character.                        *)
(***************************************************************************)
EXTENDS Integers, Sequences, FiniteSets, TLC

VARIABLES
    db,        \* the lexical database: its sense nodes, in native order
    pc,        \* position of the process / of the menu loop
    call,      \* the operation last invoked with its arguments
    ret,       \* what that operation returned or raised
    cache,     \* lru_cache of get_word_data: <<key, value>> pairs, least recent first
    plain_cache, \* lru_cache of get_word_data_plain
    req,       \* the HTTP request last served
    resp,      \* the HTTP response to it
    typed,     \* menu: the lines entered so far that made the menu prompt again
    used,      \* requests served / distinct keys looked up so far
    recalls,   \* lookups so far that repeated an earlier key
    log        \* the keys of the lookups served so far, in call order

vars == <<db, pc, call, ret, cache, plain_cache, req, resp, typed, used, recalls, log>>

----------------------------------------------------------------------------
(* Bounds of the model.                                                    *)

\* sense nodes in a database
MaxSenses == 2
\* lines typed at one menu prompt
MaxInputs == 3
\* HTTP requests served by one process
MaxRequests == 2
\* distinct keys looked up in one run of the cache
MaxKeys == 103
\* lookups in one run of the cache that repeat an earlier key
MaxRecalls == 2

----------------------------------------------------------------------------
(* Sequences.                                                              *)

Range(s) == { s[i] : i \in DOMAIN s }

\* the position of the first occurrence of x in seq
FirstAt(seq, x) == CHOOSE i \in DOMAIN seq : seq[i] = x /\ \A j \in 1..(i - 1) : seq[j] # x

NoDuplicates(seq) == \A i, j \in DOMAIN seq : seq[i] = seq[j] => i = j

\* the concatenation of a sequence of sequences
Flatten(seqs) ==
    LET F[i \in 0..Len(seqs)] == IF i = 0 THEN <<>> ELSE F[i - 1] \o seqs[i]
    IN  F[Len(seqs)]

\* seq without the later occurrences of its elements
FirstSeenOrder(seq) ==
    LET firsts == SelectSeq([ i \in DOMAIN seq |-> i ], LAMBDA i : FirstAt(seq, seq[i]) = i)
    IN  [ k \in DOMAIN firsts |-> seq[firsts[k]] ]

----------------------------------------------------------------------------
(* Python str.                                                             *)

\* the characters in code point order (tab, newline, then the printable
\* ASCII characters; the backquote, which a TLA+ string cannot hold, is left out)
Ascii ==
  << "\t", "\n", " ", "!", "\"", "#", "$", "%", "&", "'", "(", ")", "*", "+", ",", "-",
     ".", "/", "0", "1", "2", "3", "4", "5", "6", "7", "8", "9", ":", ";", "<", "=",
     ">", "?", "@", "A", "B", "C", "D", "E", "F", "G", "H", "I", "J", "K", "L", "M",
     "N", "O", "P", "Q", "R", "S", "T", "U", "V", "W", "X", "Y", "Z", "[", "\\", "]",
     "^", "_", "a", "b", "c", "d", "e", "f", "g", "h", "i", "j", "k", "l", "m",
     "n", "o", "p", "q", "r", "s", "t", "u", "v", "w", "x", "y", "z", "{", "|", "}",
     "~" >>

\* code point order of the characters
Ord == [ c \in Range(Ascii) |-> CHOOSE i \in DOMAIN Ascii : Ascii[i] = c ]

UpperCase == <<"A","B","C","D","E","F","G","H","I","J","K","L","M","N","O","P","Q","R","S","T","U","V","W","X","Y","Z">>
LowerCase == <<"a","b","c","d","e","f","g","h","i","j","k","l","m","n","o","p","q","r","s","t","u","v","w","x","y","z">>
Digits == <<"0","1","2","3","4","5","6","7","8","9">>
Whitespace == { " ", "\t", "\n" }

IndexIn(s, c) == CHOOSE i \in DOMAIN s : s[i] = c

lower_char(c) == IF c \in Range(UpperCase) THEN LowerCase[IndexIn(UpperCase, c)] ELSE c
upper_char(c) == IF c \in Range(LowerCase) THEN UpperCase[IndexIn(LowerCase, c)] ELSE c

\* str.lower()
lower(s) == [ i \in DOMAIN s |-> lower_char(s[i]) ]

\* str.capitalize(): first character upper-cased, the rest lower-cased
capitalize(s) == [ i \in DOMAIN s |-> IF i = 1 THEN upper_char(s[i]) ELSE lower_char(s[i]) ]

\* str.replace(old, new) for one-character old and new
replace(s, old, new) == [ i \in DOMAIN s |-> IF s[i] = old THEN new ELSE s[i] ]

\* s < t in Python: lexicographic by code point, a proper prefix is smaller
RECURSIVE StrLess(_, _)
StrLess(s, t) ==
    IF t = <<>> THEN FALSE
    ELSE IF s = <<>> THEN TRUE
    ELSE IF s[1] # t[1] THEN Ord[s[1]] < Ord[t[1]]
    ELSE StrLess(Tail(s), Tail(t))

\* sorted(list(S)) of a set of strings
RECURSIVE sorted(_)
sorted(S) ==
    IF S = {} THEN <<>>
    ELSE LET m == CHOOSE x \in S : \A y \in S : x = y \/ StrLess(x, y)
         IN  <<m>> \o sorted(S \ {m})

\* sep.join(parts)
RECURSIVE join(_, _)
join(sep, parts) ==
    IF parts = <<>> THEN <<>>
    ELSE IF Len(parts) = 1 THEN parts[1]
    ELSE parts[1] \o sep \o join(sep, Tail(parts))

\* str.strip()
RECURSIVE lstrip(_)
lstrip(s) == IF s # <<>> /\ s[1] \in Whitespace THEN lstrip(Tail(s)) ELSE s
RECURSIVE rstrip(_)
rstrip(s) ==
    IF s # <<>> /\ s[Len(s)] \in Whitespace THEN rstrip(SubSeq(s, 1, Len(s) - 1)) ELSE s
strip(s) == rstrip(lstrip(s))

\* str.split(sep) for a one-character sep: always at least one part
RECURSIVE split(_, _)
split(s, sep) ==
    IF \A i \in DOMAIN s : s[i] # sep THEN <<s>>
    ELSE LET k == CHOOSE i \in DOMAIN s : s[i] = sep /\ \A j \in 1..(i - 1) : s[j] # sep
         IN  <<SubSeq(s, 1, k - 1)>> \o split(SubSeq(s, k + 1, Len(s)), sep)

\* str(n) for n >= 0
RECURSIVE str_of_int(_)
str_of_int(n) ==
    IF n < 10 THEN <<Digits[n + 1]>>
    ELSE str_of_int(n \div 10) \o <<Digits[(n % 10) + 1]>>

\* what a function call yields: a value, or a raised exception
Return(v) == [exc |-> "none", val |-> v]
Raise(e) == [exc |-> e, val |-> <<>>]

----------------------------------------------------------------------------
(* The external lexical database (nltk's WordNet): a sequence of sense     *)
(* nodes in native order, drawn from a pool of nodes.                      *)

Lemma(name, antonyms) == [name |-> name, antonyms |-> antonyms]

Synset(name, pos, definition, examples, lemmas, hypernyms, hyponyms) ==
    [name |-> name, pos |-> pos, definition |-> definition, examples |-> examples,
     lemmas |-> lemmas, hypernyms |-> hypernyms, hyponyms |-> hyponyms]

SynsetPool ==
  { Synset(<<"l","i","g","h","t",".","n",".","0","1">>, <<"n">>, <<"r","a","y">>, << <<"t","u","r","n"," ","o","n">>, <<"a"," ","b","e","a","m">> >>,
           << Lemma(<<"l","i","g","h","t">>, << <<"d","a","r","k">> >>), Lemma(<<"v","i","s","i","b","l","e","_","l","i","g","h","t">>, <<>>) >>,
           << << <<"a","c","t","i","n","i","c","_","r","a","y">>, <<"r","a","d","i","a","t","i","o","n">> >> >>,
           << << <<"s","u","n","l","i","g","h","t">> >>, << <<"b","e","a","m">>, <<"r","a","y","_","o","f","_","l","i","g","h","t">> >> >>),
    Synset(<<"l","i","g","h","t",".","v",".","0","1">>, <<"v">>, <<"r","a","y">>, << <<"a"," ","b","e","a","m">> >>,
           << Lemma(<<"i","l","l","u","m","e">>, <<>>), Lemma(<<"l","i","g","h","t">>, <<>>) >>,
           << << <<"c","h","a","n","g","e">> >> >>, <<>>),
    Synset(<<"l","i","g","h","t",".","a",".","0","1">>, <<"a">>, <<"n","o","t"," ","h","e","a","v","y">>, <<>>,
           << Lemma(<<"l","i","g","h","t">>, << <<"h","e","a","v","y">> >>) >>, <<>>, <<>>),
    Synset(<<"l","i","g","h","t",".","s",".","0","2">>, <<"s">>, <<"p","a","l","e">>, << <<"Z","a","p">>, <<"a"," ","b","e","a","m">> >>,
           << Lemma(<<"l","i","g","h","t">>, <<>>), Lemma(<<"l","i","g","h","t","_","c","o","l","o","r","e","d">>, <<>>) >>, <<>>, <<>>),
    Synset(<<"l","i","g","h","t","l","y",".","r",".","0","1">>, <<"r">>, <<"s","o","f","t","l","y">>, <<>>,
           << Lemma(<<"l","i","g","h","t","l","y">>, << <<"h","e","a","v","i","l","y">> >>), Lemma(<<"l","i","g","h","t">>, <<>>) >>, <<>>, <<>>),
    Synset(<<"L","i","g","h","t",".","n",".","0","2">>, <<"n">>, <<"l","a","m","p">>, <<>>,
           << Lemma(<<"L","i","g","h","t">>, <<>>) >>, <<>>, << << <<"h","e","a","d","_","l","a","m","p">> >> >>) }

\* the contents a database may have: each node at most once
Databases ==
    UNION { { s \in [1..n -> SynsetPool] : \A i, j \in 1..n : s[i] = s[j] => i = j }
            : n \in 0..MaxSenses }

\* the lemmatizer's morphology (noun rules): inflected form -> base form
Morphy == << << <<"l","i","g","h","t","s">>, <<"l","i","g","h","t">> >> >>

morphy(form) ==
    IF \E i \in DOMAIN Morphy : Morphy[i][1] = form
    THEN Morphy[CHOOSE i \in DOMAIN Morphy : Morphy[i][1] = form][2]
    ELSE form

\* wn.synsets(word): the nodes that carry the word's base form as a lemma
\* (matched in lower case), in the database's order
wn_synsets(word) ==
    SelectSeq(db, LAMBDA node :
        \E j \in DOMAIN node.lemmas : lower(node.lemmas[j].name) = morphy(lower(word)))

----------------------------------------------------------------------------
(* src/dictionary_api/word_data.py                                         *)

POS_MAPPING ==
  << << <<"n">>, <<"n","o","u","n">> >>,
     << <<"v">>, <<"v","e","r","b">> >>,
     << <<"a">>, <<"a","d","j","e","c","t","i","v","e">> >>,
     << <<"s">>, <<"a","d","j","e","c","t","i","v","e">> >>,
     << <<"r">>, <<"a","d","v","e","r","b">> >> >>

\* POS_MAPPING.get(tag, tag)
normalize_pos(tag) ==
    IF \E i \in DOMAIN POS_MAPPING : POS_MAPPING[i][1] = tag
    THEN POS_MAPPING[CHOOSE i \in DOMAIN POS_MAPPING : POS_MAPPING[i][1] = tag][2]
    ELSE tag

lemmatize_word(word) == morphy(lower(word))

\* a pos_filter argument: None, a list or a tuple of strings
NoFilter == [kind |-> "None", items |-> <<>>]
ListOf(items) == [kind |-> "list", items |-> items]
TupleOf(items) == [kind |-> "tuple", items |-> items]

\* truth value of a pos_filter: None and empty sequences are false
Truthy(pos_filter) == pos_filter.kind # "None" /\ pos_filter.items # <<>>

\* reverse_mapping = {v: k for k, v in POS_MAPPING.items()}: a later item
\* overwrites an earlier one with the same value; reverse_mapping.get(pos, pos)
reverse_mapping_get(pos) ==
    LET hits == { i \in DOMAIN POS_MAPPING : POS_MAPPING[i][2] = pos }
    IN  IF hits = {} THEN pos
        ELSE POS_MAPPING[CHOOSE i \in hits : \A j \in hits : j <= i][1]

get_synsets(word, pos_filter) ==
    LET synsets == wn_synsets(word)
    IN  IF ~Truthy(pos_filter) THEN synsets
        ELSE LET lowered == [ i \in DOMAIN pos_filter.items |-> lower(pos_filter.items[i]) ]
                 wn_pos_filter == [ i \in DOMAIN lowered |-> reverse_mapping_get(lowered[i]) ]
             IN  SelectSeq(synsets, LAMBDA synset : synset.pos \in Range(wn_pos_filter))

format_lemma_name(name) == replace(name, "_", " ")

\* the loop of get_definitions: first occurrence of each definition text
RECURSIVE definitions_loop(_, _)
definitions_loop(synsets, definitions) ==
    IF synsets = <<>> THEN definitions
    ELSE LET definition == Head(synsets).definition
         IN  IF definition \in Range(definitions)
             THEN definitions_loop(Tail(synsets), definitions)
             ELSE definitions_loop(Tail(synsets), Append(definitions, definition))

get_definitions(word, pos_filter) ==
    definitions_loop(get_synsets(lemmatize_word(word), pos_filter), <<>>)

\* definitions[0]["definition"]: a str subscripted by a str
str_getitem_str(s, key) == Raise("TypeError")

\* pos is a string or None; None and the empty string are both false
get_definition(word, pos) ==
    LET pos_filter == IF pos # <<>> THEN ListOf(<<pos>>) ELSE NoFilter
        definitions == get_definitions(word, pos_filter)
    IN  IF definitions # <<>> THEN str_getitem_str(definitions[1], <<"d","e","f","i","n","i","t","i","o","n">>)
        ELSE Return(<<>>)

\* the names of a sequence of lemmas, formatted
lemma_names(lemmas) == { format_lemma_name(lemmas[j].name) : j \in DOMAIN lemmas }

\* a faulty variant of remove_word: the word itself stays among its synonyms
remove_word_forgotten(synonyms, lemmatized) == synonyms

\* if lemmatized in synonyms: synonyms.remove(lemmatized)
remove_word(synonyms, lemmatized) ==
    IF lemmatized \in synonyms THEN synonyms \ {lemmatized} ELSE synonyms

get_synonyms(word, pos_filter) ==
    LET lemmatized == lemmatize_word(word)
        synsets == get_synsets(lemmatized, pos_filter)
        synonyms == UNION { lemma_names(synsets[i].lemmas) : i \in DOMAIN synsets }
    IN  sorted(remove_word(synonyms, lemmatized))

\* a faulty variant of get_examples: the examples as enumerated, duplicates dropped,
\* not sorted
get_examples_unsorted(word, pos_filter) ==
    LET synsets == get_synsets(lemmatize_word(word), pos_filter)
    IN  FirstSeenOrder(Flatten([ i \in DOMAIN synsets |-> synsets[i].examples ]))

get_examples(word, pos_filter) ==
    LET lemmatized == lemmatize_word(word)
        synsets == get_synsets(lemmatized, pos_filter)
        examples == UNION { Range(synsets[i].examples) : i \in DOMAIN synsets }
    IN  sorted(examples)

\* one iteration of get_word_data's loop: the entry built for a sense node
entry_of(synset, lemmatized) ==
    LET synonyms == lemma_names(synset.lemmas)
        antonyms == UNION { { format_lemma_name(synset.lemmas[j].antonyms[k]) :
                                k \in DOMAIN synset.lemmas[j].antonyms } :
                            j \in DOMAIN synset.lemmas }
        hypernyms == UNION { { format_lemma_name(synset.hypernyms[h][l]) :
                                 l \in DOMAIN synset.hypernyms[h] } :
                             h \in DOMAIN synset.hypernyms }
        hyponyms == UNION { { format_lemma_name(synset.hyponyms[h][l]) :
                                l \in DOMAIN synset.hyponyms[h] } :
                            h \in DOMAIN synset.hyponyms }
    IN  [word |-> lemmatized,
         definition |-> synset.definition,
         pos |-> normalize_pos(synset.pos),
         examples |-> synset.examples,
         synonyms |-> sorted(remove_word(synonyms, lemmatized)),
         antonyms |-> sorted(antonyms),
         hypernyms |-> sorted(hypernyms),
         hyponyms |-> sorted(hyponyms),
         synset_id |-> synset.name]

\* a faulty variant of get_word_data_body: senses whose definition text repeats an
\* earlier one are skipped, as get_definitions does
get_word_data_body_skipping(word, pos_filter) ==
    LET lemmatized == lemmatize_word(word)
        synsets == get_synsets(lemmatized, pos_filter)
        kept == SelectSeq([ i \in DOMAIN synsets |-> i ],
                          LAMBDA i : \A j \in 1..(i - 1) :
                                        synsets[j].definition # synsets[i].definition)
        entries == [ k \in DOMAIN kept |-> entry_of(synsets[kept[k]], lemmatized) ]
    IN  [word |-> lemmatized, entries |-> entries, num_senses |-> Len(entries)]

\* the body of get_word_data, under its lru_cache decorator
get_word_data_body(word, pos_filter) ==
    LET lemmatized == lemmatize_word(word)
        synsets == get_synsets(lemmatized, pos_filter)
        entries == [ i \in DOMAIN synsets |-> entry_of(synsets[i], lemmatized) ]
    IN  [word |-> lemmatized, entries |-> entries, num_senses |-> Len(entries)]

\* a faulty variant of section: the label is written also for an empty list
section_always(label, sep, items) == label \o join(sep, items) \o <<"\n">>

\* if len(entry[...]) > 0: final += label + sep.join(entry[...]) + "\n"
section(label, sep, items) ==
    IF Len(items) > 0 THEN label \o join(sep, items) \o <<"\n">> ELSE <<>>

\* one iteration of get_word_data_plain's loop: the text of entry i (0-based)
plain_entry(i, entry) ==
    str_of_int(i + 1) \o <<"."," ">> \o capitalize(entry.pos) \o <<":"," ">> \o entry.definition \o <<"\n">>
    \o section(<<"E","x","a","m","p","l","e","s",":">> \o <<"\t">>, <<"\n","\t">>, entry.examples)
    \o section(<<"S","y","n","o","n","y","m","s",":"," ">>, <<","," ">>, entry.synonyms)
    \o section(<<"A","n","t","o","n","y","m","s",":"," ">>, <<","," ">>, entry.antonyms)
    \o section(<<"H","y","p","e","r","n","y","m","s",":"," ">>, <<","," ">>, entry.hypernyms)
    \o section(<<"H","y","p","o","n","y","m","s",":"," ">>, <<","," ">>, entry.hyponyms)

\* the body of get_word_data_plain, given the record get_word_data returned
plain_of(wd) ==
    join(<<"\n">>, [ i \in DOMAIN wd.entries |-> plain_entry(i - 1, wd.entries[i]) ])

----------------------------------------------------------------------------
(* functools.lru_cache as the two decorators use it.                       *)

maxsize == 100

\* lru_cache keys on the call's positional and keyword arguments as given.
\* The forms of call: "w" is f(word), "w,pf" is f(word, pos_filter), "w,pf="
\* is f(word, pos_filter=...) and "word=,pf=" is f(word=..., pos_filter=...).

make_key(form, word, pos_filter) == <<form, word, pos_filter>>

\* hash() of the key: a list argument is unhashable
Hashable(pos_filter) == pos_filter.kind # "list"

CacheKeys(c) == { c[i][1] : i \in DOMAIN c }
CacheIndex(c, key) == CHOOSE i \in DOMAIN c : c[i][1] = key
Without(c, i) == SubSeq(c, 1, i - 1) \o SubSeq(c, i + 1, Len(c))

\* a faulty variant of lru_hit: a hit does not count as a use
lru_hit_untouched(c, key) == c

\* the cache after a hit on key: the entry becomes the most recent
lru_hit(c, key) == Without(c, CacheIndex(c, key)) \o <<c[CacheIndex(c, key)]>>

\* the cache after a miss stored value under key: the oldest entry goes when full
lru_miss(c, key, value) ==
    IF Len(c) >= maxsize THEN Append(Tail(c), <<key, value>>)
    ELSE Append(c, <<key, value>>)

\* get_word_data as decorated: the result and the cache afterwards
get_word_data(c, form, word, pos_filter) ==
    LET key == make_key(form, word, pos_filter)
    IN  IF ~Hashable(pos_filter) THEN [ret |-> Raise("TypeError"), cache |-> c]
        ELSE IF key \in CacheKeys(c)
        THEN [ret |-> Return(c[CacheIndex(c, key)][2]), cache |-> lru_hit(c, key)]
        ELSE LET value == get_word_data_body(word, pos_filter)
             IN  [ret |-> Return(value), cache |-> lru_miss(c, key, value)]

\* get_word_data_plain as decorated: the result and both caches afterwards
get_word_data_plain(pc_, c, form, word, pos_filter) ==
    LET key == make_key(form, word, pos_filter)
    IN  IF ~Hashable(pos_filter)
        THEN [ret |-> Raise("TypeError"), plain_cache |-> pc_, cache |-> c]
        ELSE IF key \in CacheKeys(pc_)
        THEN [ret |-> Return(pc_[CacheIndex(pc_, key)][2]),
              plain_cache |-> lru_hit(pc_, key), cache |-> c]
        ELSE LET inner == get_word_data(c, "word=,pf=", word, pos_filter)
                 value == plain_of(inner.ret.val)
             IN  [ret |-> Return(value), plain_cache |-> lru_miss(pc_, key, value),
                  cache |-> inner.cache]

----------------------------------------------------------------------------
(* Inputs.                                                                 *)

Words == { <<"l","i","g","h","t">>, <<"L","i","g","h","t">>, <<"l","i","g","h","t","s">>, <<"v","i","s","i","b","l","e","_","l","i","g","h","t">>, <<"x","y","z","z","y">> }

PosFilters ==
    { NoFilter, ListOf(<<>>),
      ListOf(<< <<"n","o","u","n">> >>), ListOf(<< <<"N">> >>), ListOf(<< <<"n","o","u","n">>, <<"v","e","r","b">> >>),
      ListOf(<< <<"a","d","j","e","c","t","i","v","e">> >>), ListOf(<< <<"A","d","j","e","c","t","i","v","e">> >>),
      ListOf(<< <<"a">> >>), ListOf(<< <<"s">> >>), ListOf(<< <<"b","o","g","u","s">> >>),
      TupleOf(<< <<"n","o","u","n">> >>), TupleOf(<< <<"a","d","j","e","c","t","i","v","e">> >>) }

\* the pos argument of get_definition: None (the empty string here) or a name
PosArgs == { <<>>, <<"n","o","u","n">>, <<"a","d","j","e","c","t","i","v","e">>, <<"b","o","g","u","s">> }

NoCall == [fn |-> "none", form |-> "w", word |-> <<>>, pos_filter |-> NoFilter]
Call(fn, form, word, pos_filter) ==
    [fn |-> fn, form |-> form, word |-> word, pos_filter |-> pos_filter]

\* an optional string: a request parameter that may be absent (None)
None == [some |-> FALSE, s |-> <<>>]
Some(s) == [some |-> TRUE, s |-> s]

NoReq == [path_word |-> None, query_word |-> None, pos_str |-> None]
NoResp == [status |-> 0, data_null |-> TRUE, data |-> <<>>, error_null |-> TRUE,
           error |-> <<>>, invoked |-> FALSE]

----------------------------------------------------------------------------
(* Spec: one library call in a fresh process, as src/main.py's define()    *)
(* makes it, against any database.                                         *)

Init ==
    /\ db \in Databases
    /\ pc = "ready"
    /\ call = NoCall
    /\ ret = Return(<<>>)
    /\ cache = <<>>
    /\ plain_cache = <<>>
    /\ req = NoReq
    /\ resp = NoResp
    /\ typed = <<>>
    /\ used = 0
    /\ recalls = 0
    /\ log = <<>>

Finish(c, r) ==
    /\ pc = "ready"
    /\ pc' = "done"
    /\ call' = c
    /\ ret' = r
    /\ UNCHANGED <<db, req, resp, typed, used, recalls, log>>

do_get_synsets(word, pos_filter) ==
    /\ Finish(Call("get_synsets", "w,pf", word, pos_filter),
              Return(get_synsets(word, pos_filter)))
    /\ UNCHANGED <<cache, plain_cache>>

do_get_definitions(word, pos_filter) ==
    /\ Finish(Call("get_definitions", "w,pf", word, pos_filter),
              Return(get_definitions(word, pos_filter)))
    /\ UNCHANGED <<cache, plain_cache>>

do_get_definition(word, pos) ==
    /\ Finish(Call("get_definition", "w,pf", word,
                   IF pos # <<>> THEN ListOf(<<pos>>) ELSE NoFilter),
              get_definition(word, pos))
    /\ UNCHANGED <<cache, plain_cache>>

do_get_synonyms(word, pos_filter) ==
    /\ Finish(Call("get_synonyms", "w,pf", word, pos_filter),
              Return(get_synonyms(word, pos_filter)))
    /\ UNCHANGED <<cache, plain_cache>>

do_get_examples(word, pos_filter) ==
    /\ Finish(Call("get_examples", "w,pf", word, pos_filter),
              Return(get_examples(word, pos_filter)))
    /\ UNCHANGED <<cache, plain_cache>>

do_get_word_data(form, word, pos_filter) ==
    LET r == get_word_data(cache, form, word, pos_filter)
    IN  /\ form = "w" => pos_filter = NoFilter
        /\ Finish(Call("get_word_data", form, word, pos_filter), r.ret)
        /\ cache' = r.cache
        /\ UNCHANGED plain_cache

do_get_word_data_plain(form, word, pos_filter) ==
    LET r == get_word_data_plain(plain_cache, cache, form, word, pos_filter)
    IN  /\ form = "w" => pos_filter = NoFilter
        /\ Finish(Call("get_word_data_plain", form, word, pos_filter), r.ret)
        /\ cache' = r.cache
        /\ plain_cache' = r.plain_cache

Next ==
    \/ \E word \in Words, pos_filter \in PosFilters : do_get_synsets(word, pos_filter)
    \/ \E word \in Words, pos_filter \in PosFilters : do_get_definitions(word, pos_filter)
    \/ \E word \in Words, pos \in PosArgs : do_get_definition(word, pos)
    \/ \E word \in Words, pos_filter \in PosFilters : do_get_synonyms(word, pos_filter)
    \/ \E word \in Words, pos_filter \in PosFilters : do_get_examples(word, pos_filter)
    \/ \E form \in {"w", "w,pf"}, word \in Words, pos_filter \in PosFilters :
          do_get_word_data(form, word, pos_filter)
    \/ \E form \in {"w", "w,pf"}, word \in Words, pos_filter \in PosFilters :
          do_get_word_data_plain(form, word, pos_filter)

Spec == Init /\ [][Next]_vars

----------------------------------------------------------------------------
(* Properties of the library calls (Spec).                                 *)

Returned(fn) == pc = "done" /\ call.fn = fn /\ ret.exc = "none"


\* C3: get_word_data(w) returns num_senses == len(entries) and exactly one
\* entry per sense node that get_synsets gives for the lemmatized word, in
\* retrieval order, also when definition texts repeat; an unknown word
\* yields num_senses == 0.
C3_OneEntryPerSense ==
    (pc = "done" /\ call.fn = "get_word_data" /\ call.pos_filter = NoFilter) =>
        LET nodes == get_synsets(lemmatize_word(call.word), NoFilter)
            wd == ret.val
        IN  /\ ret.exc = "none"
            /\ wd.num_senses = Len(wd.entries)
            /\ Len(wd.entries) = Len(nodes)
            /\ \A i \in DOMAIN nodes :
                  /\ wd.entries[i].synset_id = nodes[i].name
                  /\ wd.entries[i].definition = nodes[i].definition
            /\ wn_synsets(lemmatize_word(call.word)) = <<>> => wd.num_senses = 0

\* two senses with the same definition text are both kept
C3_Witness ==
    /\ Returned("get_word_data") /\ call.pos_filter = NoFilter
    /\ ret.val.num_senses = 2
    /\ ret.val.entries[1].definition = ret.val.entries[2].definition
    /\ ret.val.entries[1].synset_id # ret.val.entries[2].synset_id

C3_WitnessUnknown ==
    /\ Returned("get_word_data") /\ call.pos_filter = NoFilter
    /\ db # <<>> /\ ret.val.num_senses = 0

\* C4: get_synsets(word, ["adjective"]), in any letter case, returns exactly
\* the nodes of the word whose POS code is "a" or "s", in native order.
C4_AdjectiveCodesEquivalent ==
    (Returned("get_synsets") /\ Len(call.pos_filter.items) = 1
       /\ lower(call.pos_filter.items[1]) = <<"a","d","j","e","c","t","i","v","e">>) =>
        ret.val = SelectSeq(wn_synsets(call.word),
                            LAMBDA node : normalize_pos(node.pos) = <<"a","d","j","e","c","t","i","v","e">>)

\* C5 as stated: get_examples and get_definitions return their strings in
\* first-seen order with exact duplicates suppressed.
C5_FirstSeenOrder ==
    LET nodes == get_synsets(lemmatize_word(call.word), call.pos_filter)
    IN  /\ Returned("get_examples") =>
              ret.val = FirstSeenOrder(Flatten([ n \in DOMAIN nodes |-> nodes[n].examples ]))
        /\ Returned("get_definitions") =>
              ret.val = FirstSeenOrder([ n \in DOMAIN nodes |-> nodes[n].definition ])

\* C5 amended: get_definitions returns the definitions in first-seen order
\* with exact duplicates suppressed; get_examples returns the examples with
\* exact duplicates suppressed, sorted ascending.
C5_DefinitionsFirstSeenExamplesSorted ==
    LET nodes == get_synsets(lemmatize_word(call.word), call.pos_filter)
        all_examples == Flatten([ n \in DOMAIN nodes |-> nodes[n].examples ])
        all_definitions == [ n \in DOMAIN nodes |-> nodes[n].definition ]
    IN  /\ Returned("get_examples") =>
              /\ NoDuplicates(ret.val)
              /\ Range(ret.val) = Range(all_examples)
              /\ \A i, j \in DOMAIN ret.val : i < j => StrLess(ret.val[i], ret.val[j])
        /\ Returned("get_definitions") =>
              /\ NoDuplicates(ret.val)
              /\ Range(ret.val) = Range(all_definitions)
              /\ \A i, j \in DOMAIN ret.val :
                    i < j => FirstAt(all_definitions, ret.val[i]) < FirstAt(all_definitions, ret.val[j])

\* examples that repeat across senses and are not enumerated in sorted order
C5_Witness ==
    LET nodes == get_synsets(lemmatize_word(call.word), call.pos_filter)
        all_examples == Flatten([ n \in DOMAIN nodes |-> nodes[n].examples ])
    IN  /\ Returned("get_examples")
        /\ Len(ret.val) >= 2
        /\ Len(ret.val) < Len(all_examples)
        /\ ret.val[1] # all_examples[1]

\* C7: the lemmatized query word never appears among the synonyms of an
\* entry of get_word_data(w) or in get_synonyms(w), and every other lemma
\* name of the sense node(s), underscores replaced by spaces, does.
C7_SynonymExclusion ==
    LET lemmatized == lemmatize_word(call.word)
        nodes == get_synsets(lemmatized, call.pos_filter)
        names(node) == { replace(node.lemmas[j].name, "_", " ") : j \in DOMAIN node.lemmas }
    IN  /\ Returned("get_word_data") =>
              \A i \in DOMAIN ret.val.entries :
                  /\ lemmatized \notin Range(ret.val.entries[i].synonyms)
                  /\ names(nodes[i]) \ {lemmatized} \subseteq Range(ret.val.entries[i].synonyms)
        /\ Returned("get_synonyms") =>
              /\ lemmatized \notin Range(ret.val)
              /\ \A i \in DOMAIN nodes : names(nodes[i]) \ {lemmatized} \subseteq Range(ret.val)

\* a sense that carries the query word itself and another lemma
C7_Witness ==
    /\ Returned("get_word_data")
    /\ ret.val.num_senses >= 1
    /\ \E j \in DOMAIN db[1].lemmas : db[1].lemmas[j].name = lemmatize_word(call.word)
    /\ ret.val.entries[1].synset_id = db[1].name
    /\ ret.val.entries[1].synonyms # <<>>

\* C8: get_definition(word, pos) returns the first string of
\* get_definitions(word, [pos] or no filter), the empty string when there is
\* none, and does not raise.
C8_FirstDefinition ==
    (pc = "done" /\ call.fn = "get_definition") =>
        LET definitions == get_definitions(call.word, call.pos_filter)
        IN  ret = Return(IF definitions = <<>> THEN <<>> ELSE definitions[1])

\* the text before the first ":" of a line
Label(line) ==
    IF \A i \in DOMAIN line : line[i] # ":" THEN line
    ELSE SubSeq(line, 1, FirstAt(line, ":") - 1)

\* the non-empty sections of an entry, by name, in the order of the rendering
SectionNames(entry) ==
    LET sections == << <<<<"E","x","a","m","p","l","e","s">>, entry.examples>>, <<<<"S","y","n","o","n","y","m","s">>, entry.synonyms>>,
                       <<<<"A","n","t","o","n","y","m","s">>, entry.antonyms>>, <<<<"H","y","p","e","r","n","y","m","s">>, entry.hypernyms>>,
                       <<<<"H","y","p","o","n","y","m","s">>, entry.hyponyms>> >>
        present == SelectSeq(sections, LAMBDA p : p[2] # <<>>)
    IN  [ k \in DOMAIN present |-> present[k][1] ]

\* C9: get_word_data_plain emits, for each sense in order, a line with its
\* 1-based index, capitalized POS label and definition, followed by the
\* sections Examples, Synonyms, Antonyms, Hypernyms, Hyponyms in that order,
\* a section being present iff the sense's list is non-empty.
C9_PlainSections ==
    Returned("get_word_data_plain") =>
        LET entries == get_word_data_body(call.word, call.pos_filter).entries
            lines == SelectSeq(split(ret.val, "\n"),
                               LAMBDA l : l # <<>> /\ l[1] # "\t")
            outline == [ k \in DOMAIN lines |->
                           IF lines[k][1] \in Range(Digits) THEN lines[k] ELSE Label(lines[k]) ]
            header(i) == str_of_int(i) \o <<"."," ">> \o capitalize(entries[i].pos) \o <<":"," ">>
                         \o entries[i].definition
        IN  outline = Flatten([ i \in DOMAIN entries |->
                                  <<header(i)>> \o SectionNames(entries[i]) ])

\* two senses, the first without examples but with synonyms, the second with
\* examples
C9_Witness ==
    /\ Returned("get_word_data_plain")
    /\ Len(db) = 2 /\ Len(get_word_data_body(call.word, call.pos_filter).entries) = 2
    /\ db[1].examples = <<>> /\ Len(db[1].lemmas) > 1
    /\ Len(db[2].examples) > 1

----------------------------------------------------------------------------
(* src/dictionary_api/app.py: a process serving /api/word requests.        *)

\* a faulty variant of StrTruthy: only None is false
StrTruthy_not_none(o) == o.some

\* truth value of an optional string: None and "" are false
StrTruthy(o) == o.some /\ o.s # <<>>
\* a or b
PyOr(a, b) == IF StrTruthy(a) THEN a ELSE b

\* jsonify({"data": ..., "error": ...}), status
JsonData(data, invoked) ==
    [status |-> 200, data_null |-> FALSE, data |-> data, error_null |-> TRUE,
     error |-> <<>>, invoked |-> invoked]
JsonError(status, error, invoked) ==
    [status |-> status, data_null |-> TRUE, data |-> <<>>, error_null |-> FALSE,
     error |-> error, invoked |-> invoked]

\* the handler: the response, the cache afterwards, and the get_word_data
\* call it made with that call's outcome
word_lookup(c, path_word, query_word, pos_str) ==
    LET word == PyOr(path_word, query_word)
    IN  IF ~StrTruthy(word)
        THEN [resp |-> JsonError(400, <<"M","i","s","s","i","n","g"," ","'","w","o","r","d","'"," ","q","u","e","r","y"," ","p","a","r","a","m","e","t","e","r">>, FALSE),
              cache |-> c, call |-> NoCall, ret |-> Return(<<>>)]
        ELSE LET parts == split(pos_str.s, ",")
                 pos_filter == IF StrTruthy(pos_str)
                               THEN ListOf([ i \in DOMAIN parts |-> strip(parts[i]) ])
                               ELSE NoFilter
                 r == get_word_data(c, "w,pf=", word.s, pos_filter)
                 made == Call("get_word_data", "w,pf=", word.s, pos_filter)
             IN  IF r.ret.exc # "none"
                 THEN [resp |-> JsonError(500, <<"A","n"," ","i","n","t","e","r","n","a","l"," ","s","e","r","v","e","r"," ","e","r","r","o","r"," ","o","c","c","u","r","r","e","d">>, TRUE),
                       cache |-> r.cache, call |-> made, ret |-> r.ret]
                 ELSE IF r.ret.val.num_senses > 0
                 THEN [resp |-> JsonData(r.ret.val, TRUE),
                       cache |-> r.cache, call |-> made, ret |-> r.ret]
                 ELSE [resp |-> JsonError(404, <<"N","o"," ","d","e","f","i","n","i","t","i","o","n","s"," ","f","o","u","n","d"," ","f","o","r"," ","'">> \o word.s \o <<"'">>,
                                          TRUE),
                       cache |-> r.cache, call |-> made, ret |-> r.ret]

PathWords == { None, Some(<<"l","i","g","h","t">>) }
QueryWords == { None, Some(<<>>), Some(<<"L","i","g","h","t","s">>), Some(<<"x","y","z","z","y">>) }
PosStrs == { None, Some(<<>>), Some(<<"a","d","j","e","c","t","i","v","e">>), Some(<<" ","N","o","u","n"," ",",","v","e","r","b">>) }

\* the databases the server is started with: noun and adjective nodes
HttpDatabases ==
    { d \in Databases : \A i \in DOMAIN d : d[i].pos \in { <<"n">>, <<"a">>, <<"s">> } }

InitHttp ==
    /\ db \in HttpDatabases
    /\ pc = "serving"
    /\ call = NoCall
    /\ ret = Return(<<>>)
    /\ cache = <<>>
    /\ plain_cache = <<>>
    /\ req = NoReq
    /\ resp = NoResp
    /\ typed = <<>>
    /\ used = 0
    /\ recalls = 0
    /\ log = <<>>

WordLookup(path_word, query_word, pos_str) ==
    LET r == word_lookup(cache, path_word, query_word, pos_str)
    IN  /\ pc = "serving"
        /\ used < MaxRequests
        /\ used' = used + 1
        /\ req' = [path_word |-> path_word, query_word |-> query_word, pos_str |-> pos_str]
        /\ resp' = r.resp
        /\ cache' = r.cache
        /\ call' = r.call
        /\ ret' = r.ret
        /\ UNCHANGED <<db, pc, plain_cache, typed, recalls, log>>

NextHttp ==
    \E path_word \in PathWords, query_word \in QueryWords, pos_str \in PosStrs :
        WordLookup(path_word, query_word, pos_str)

SpecHttp == InitHttp /\ [][NextHttp]_vars

\* C1: a request with pos=adjective for a word that has adjective senses is
\* answered 200 with a record whose every entry has pos "adjective", and
\* the call get_word_data(w, [name]) it makes returns a record whose every
\* entry has that pos.
C1_FilteredLookupSucceeds ==
    LET word == PyOr(req.path_word, req.query_word).s
        has_adjective == \E i \in DOMAIN wn_synsets(lemmatize_word(word)) :
                            wn_synsets(lemmatize_word(word))[i].pos \in { <<"a">>, <<"s">> }
    IN  /\ (resp.status # 0 /\ StrTruthy(PyOr(req.path_word, req.query_word))
              /\ req.pos_str = Some(<<"a","d","j","e","c","t","i","v","e">>) /\ has_adjective) =>
              /\ resp.status = 200
              /\ ~resp.data_null
              /\ \A i \in DOMAIN resp.data.entries : resp.data.entries[i].pos = <<"a","d","j","e","c","t","i","v","e">>
        /\ (call.fn = "get_word_data" /\ call.pos_filter.kind = "list"
              /\ Len(call.pos_filter.items) = 1
              /\ \E i \in DOMAIN wn_synsets(lemmatize_word(call.word)) :
                    normalize_pos(wn_synsets(lemmatize_word(call.word))[i].pos)
                        = lower(call.pos_filter.items[1])) =>
              /\ ret.exc = "none"
              /\ \A i \in DOMAIN ret.val.entries :
                    ret.val.entries[i].pos = lower(call.pos_filter.items[1])

\* C2: without a pos parameter, no word (neither path segment nor query
\* parameter, or an empty one) is answered 400 with data null and
\* get_word_data not invoked; else zero senses are answered 404 with data
\* null; else the answer is 200 with the record as data and error null.
C2_StatusWithoutPos ==
    (resp.status # 0 /\ ~req.pos_str.some) =>
        LET no_word == /\ ~req.path_word.some
                       /\ (~req.query_word.some \/ req.query_word.s = <<>>)
            word == IF req.path_word.some THEN req.path_word.s ELSE req.query_word.s
            wd == get_word_data_body(word, NoFilter)
        IN  IF no_word
            THEN resp.status = 400 /\ resp.data_null /\ ~resp.invoked /\ call = NoCall
            ELSE IF wd.num_senses = 0
            THEN resp.status = 404 /\ resp.data_null /\ resp.invoked
            ELSE resp.status = 200 /\ ~resp.data_null /\ resp.data = wd /\ resp.error_null

\* the second request of a process is answered from the cache, for a word
\* given as a path segment
C2_Witness ==
    /\ used = 2 /\ ~req.pos_str.some
    /\ req.path_word.some /\ ~req.query_word.some
    /\ resp.status = 200 /\ resp.data.num_senses = 2
    /\ Len(cache) = 1

C2_Witness404 == resp.status = 404 /\ ~req.pos_str.some /\ db # <<>>
C2_Witness400 == resp.status = 400 /\ ~req.pos_str.some /\ req.query_word = Some(<<>>)

----------------------------------------------------------------------------
(* src/main.py: the interactive mode of the command-line tool.             *)

\* list(options_mapping.keys())
options == << "plain", "data", "pos", "synonyms", "antonyms", "definitions",
              "examples", "hypernyms", "hyponyms" >>

\* Python values a menu result may be
PyInt(n) == [t |-> "int", v |-> n]
PyNone == [t |-> "None", v |-> 0]

\* the value of a string of decimal digits
RECURSIVE digits_value(_)
digits_value(s) ==
    IF s = <<>> THEN 0
    ELSE 10 * digits_value(SubSeq(s, 1, Len(s) - 1)) + (IndexIn(Digits, s[Len(s)]) - 1)

\* int(s): surrounding whitespace, an optional sign, then digits in which
\* single underscores may separate digits; anything else is a ValueError
int(s) ==
    LET t == strip(s)
        signed == t # <<>> /\ t[1] \in {"+", "-"}
        body == IF signed THEN Tail(t) ELSE t
        wellformed ==
            /\ body # <<>>
            /\ \A i \in DOMAIN body : body[i] \in Range(Digits) \cup {"_"}
            /\ body[1] # "_" /\ body[Len(body)] # "_"
            /\ \A i \in 1..(Len(body) - 1) : ~(body[i] = "_" /\ body[i + 1] = "_")
        magnitude == digits_value(SelectSeq(body, LAMBDA ch : ch # "_"))
    IN  IF ~wellformed THEN Raise("ValueError")
        ELSE Return(IF signed /\ t[1] = "-" THEN 0 - magnitude ELSE magnitude)

\* one pass of menu's while loop over the line just read: the loop goes
\* round again ("continue"), is left with result = default ("break"), or
\* the function returns the number entered ("return")
menu(line, items, default) ==
    IF line = <<>> /\ default # PyNone THEN [then |-> "break", result |-> default]
    ELSE LET n == int(line)
         IN  IF n.exc = "ValueError" THEN [then |-> "continue", result |-> PyNone]
             ELSE IF n.val >= Len(items) \/ n.val < 0
             THEN [then |-> "continue", result |-> PyNone]
             ELSE [then |-> "return", result |-> PyInt(n.val)]

Lines == { <<>>, <<"0">>, <<"8">>, <<"9">>, <<"-","1">>, <<"x">>, <<" ","3"," ">>, <<"1","_","0">>, <<"+","2">>, <<" "," ">> }

InitMenu ==
    /\ db = <<>>
    /\ pc = "menu"
    /\ call = Call("menu", "w", <<>>, NoFilter)
    /\ ret = Return(PyNone)
    /\ cache = <<>>
    /\ plain_cache = <<>>
    /\ req = NoReq
    /\ resp = NoResp
    /\ typed = <<>>
    /\ used = 0
    /\ recalls = 0
    /\ log = <<>>

\* the user answers the "Select an option: " prompt of
\* menu("Select an option: ", options), whose default is 0. No statement
\* follows the while loop, so after break the function returns None.
MenuInput(line) ==
    LET m == menu(line, options, PyInt(0))
    IN  /\ pc = "menu"
        /\ \/ /\ m.then = "continue"
              /\ Len(typed) < MaxInputs
              /\ typed' = Append(typed, line)
              /\ UNCHANGED <<pc, ret>>
           \/ /\ m.then = "break"
              /\ pc' = "menu_returned"
              /\ ret' = Return(PyNone)
              /\ typed' = Append(typed, line)
           \/ /\ m.then = "return"
              /\ pc' = "menu_returned"
              /\ ret' = Return(m.result)
              /\ typed' = Append(typed, line)
        /\ UNCHANGED <<db, call, cache, plain_cache, req, resp, used, recalls, log>>

\* run_interactively: option = options[selection]
SelectOption ==
    /\ pc = "menu_returned"
    /\ \/ /\ ret.val.t = "int"
          /\ pc' = "enter_word"
          /\ ret' = Return(options[ret.val.v + 1])
       \/ /\ ret.val.t # "int"
          /\ pc' = "crashed"
          /\ ret' = Raise("TypeError")
    /\ UNCHANGED <<db, call, cache, plain_cache, req, resp, typed, used, recalls, log>>

\* run_interactively: word = input("Enter a word: "); return (option, word)
EnterWord(word) ==
    /\ pc = "enter_word"
    /\ pc' = "done"
    /\ ret' = Return(<<ret.val, word>>)
    /\ call' = Call("run_interactively", "w", word, NoFilter)
    /\ UNCHANGED <<db, cache, plain_cache, req, resp, typed, used, recalls, log>>

NextMenu ==
    \/ \E line \in Lines : MenuInput(line)
    \/ SelectOption
    \/ \E word \in Words : EnterWord(word)

SpecMenu == InitMenu /\ [][NextMenu]_vars

\* C6: menu prompts again after a non-numeric or out-of-range line, and
\* whenever it returns its result is an integer i with 0 <= i < len(items),
\* the default index after an empty line, so that run_interactively can
\* index the option list with it.
C6_MenuReturnsIndex ==
    /\ pc = "menu_returned" =>
          /\ ret.val.t = "int"
          /\ 0 <= ret.val.v /\ ret.val.v < Len(options)
          /\ typed[Len(typed)] = <<>> => ret.val = PyInt(0)
    /\ pc # "crashed"

----------------------------------------------------------------------------
(* SpecCache: a long-lived process looking words up through get_word_data  *)
(* with hashable arguments, against a fixed database.                      *)

CacheDb ==
    LET pick(pos) == CHOOSE node \in SynsetPool :
                        node.pos = pos /\ \A other \in SynsetPool :
                            other.pos = pos => ~StrLess(other.name, node.name)
    IN  << pick(<<"n">>), pick(<<"a">>), pick(<<"s">>) >>

CacheWords == << <<"l","i","g","h","t">>, <<"L","i","g","h","t">>, <<"l","i","g","h","t","s">>, <<"L","I","G","H","T">>, <<"v","i","s","i","b","l","e","_","l","i","g","h","t">>, <<"x","y","z","z","y">> >>

\* the hashable argument lists a caller may pass, by call form
CacheArgs ==
    << <<"w", NoFilter>>, <<"w,pf", NoFilter>>, <<"w,pf=", NoFilter>>,
       <<"word=,pf=", NoFilter>>,
       <<"w,pf", TupleOf(<<>>)>>, <<"w,pf=", TupleOf(<<>>)>>,
       <<"w,pf", TupleOf(<< <<"n","o","u","n">> >>)>>, <<"w,pf=", TupleOf(<< <<"n","o","u","n">> >>)>>,
       <<"w,pf", TupleOf(<< <<"N","o","u","n">> >>)>>, <<"w,pf=", TupleOf(<< <<"n">> >>)>>,
       <<"w,pf", TupleOf(<< <<"a">> >>)>>, <<"w,pf=", TupleOf(<< <<"s">> >>)>>,
       <<"w,pf", TupleOf(<< <<"a","d","j","e","c","t","i","v","e">> >>)>>, <<"w,pf=", TupleOf(<< <<"a","d","j","e","c","t","i","v","e">> >>)>>,
       <<"w,pf", TupleOf(<< <<"n","o","u","n">>, <<"v","e","r","b">> >>)>>,
       <<"w,pf", TupleOf(<< <<"v","e","r","b">>, <<"n","o","u","n">> >>)>>,
       <<"w,pf", TupleOf(<< <<"a">>, <<"s">> >>)>>,
       <<"w,pf", TupleOf(<< <<"b","o","g","u","s">> >>)>> >>

\* the n-th distinct lookup of a run, n = 1, 2, ...: the words vary fastest
FreshCall(n) ==
    LET w == ((n - 1) % Len(CacheWords)) + 1
        a == (((n - 1) \div Len(CacheWords)) % Len(CacheArgs)) + 1
    IN  [form |-> CacheArgs[a][1], word |-> CacheWords[w], pos_filter |-> CacheArgs[a][2]]

InitCache ==
    /\ db = CacheDb
    /\ pc = "serving"
    /\ call = NoCall
    /\ ret = Return(<<>>)
    /\ cache = <<>>
    /\ plain_cache = <<>>
    /\ req = NoReq
    /\ resp = NoResp
    /\ typed = <<>>
    /\ used = 0
    /\ recalls = 0
    /\ log = <<>>

Lookup(c) ==
    LET r == get_word_data(cache, c.form, c.word, c.pos_filter)
    IN  /\ pc = "serving"
        /\ call' = Call("get_word_data", c.form, c.word, c.pos_filter)
        /\ ret' = r.ret
        /\ cache' = r.cache
        /\ log' = Append(log, make_key(c.form, c.word, c.pos_filter))
        /\ UNCHANGED <<db, pc, plain_cache, req, resp, typed>>

\* a lookup with arguments not used before in this run
LookupFresh ==
    /\ used < MaxKeys
    /\ used < Len(CacheWords) * Len(CacheArgs)
    /\ Lookup(FreshCall(used + 1))
    /\ used' = used + 1
    /\ UNCHANGED recalls

\* the position in the log of the last lookup of a key
LastAccess(l, key) == CHOOSE i \in DOMAIN l : l[i] = key /\ \A j \in (i + 1)..Len(l) : l[j] # key

\* the key of the n-th distinct lookup
KeyOf(n) == make_key(FreshCall(n).form, FreshCall(n).word, FreshCall(n).pos_filter)

\* a lookup that repeats an earlier one: the least or the most recently used
\* key in the cache, or the key evicted last. Repeats are explored once the
\* cache is within one entry of its capacity, where the order of use decides
\* which key goes next.
LookupAgain ==
    /\ recalls < MaxRecalls
    /\ Len(cache) >= maxsize - 1
    /\ \E n \in { m \in 1..used :
                    LET evicted == { e \in 1..used : KeyOf(e) \notin CacheKeys(cache) }
                    IN  \/ KeyOf(m) = cache[1][1]
                        \/ KeyOf(m) = cache[Len(cache)][1]
                        \/ m \in evicted /\ \A e \in evicted : LastAccess(log, KeyOf(e)) <= LastAccess(log, KeyOf(m)) } :
          Lookup(FreshCall(n))
    /\ recalls' = recalls + 1
    /\ UNCHANGED used

NextCache == LookupFresh \/ LookupAgain

SpecCache == InitCache /\ [][NextCache]_vars

\* C10: the cache of get_word_data never holds more than 100 keys; a lookup
\* inserts its key only on a miss; an insertion into a full cache evicts
\* exactly the least recently accessed key, a hit counting as an access; and
\* every result served equals a fresh computation for the same arguments.
C10_BoundedLru ==
    [][ log' # log =>
          LET key == log'[Len(log')]
              before == CacheKeys(cache)
              after == CacheKeys(cache')
          IN  /\ Len(cache') <= maxsize
              /\ Cardinality(after) = Len(cache')
              /\ Cardinality({ <<k[2], k[3]>> : k \in after }) <= maxsize
              /\ key \in after
              /\ key \in before => after = before
              /\ (key \notin before /\ Len(cache) < maxsize) => after = before \cup {key}
              /\ (key \notin before /\ Len(cache) >= maxsize) =>
                    \E victim \in before :
                        /\ after = (before \ {victim}) \cup {key}
                        /\ \A other \in before \ {victim} :
                              LastAccess(log, victim) < LastAccess(log, other)
              /\ ret' = Return(get_word_data_body(call'.word, call'.pos_filter))
      ]_vars

\* the cache is full, the first key was looked up again before the cache
\* overflowed and is still cached, and the second key was evicted instead
C10_Witness ==
    /\ Len(cache) = maxsize /\ used > maxsize /\ recalls > 0
    /\ KeyOf(1) \in CacheKeys(cache)
    /\ KeyOf(2) \notin CacheKeys(cache)

=============================================================================
